---- MODULE Spec2Model ----
(***************************************************************************)
(* portage-jobsmon: the Screen object (window registry, inactive set,      *)
(* backlog, layout), the FileTailer log sources, the inotify handlers and  *)
(* the timer callback of src/portage-jobsmon.py as a state machine.        *)
(*                                                                         *)
(* One action is one handler run of the single-threaded notifier loop      *)
(* (an inotify callback or the timer callback), or one step of the         *)
(* environment: time passing, the terminal being resized, build processes  *)
(* taking and releasing their lock files and writing their logs.           *)
(*                                                                         *)
(* Text is a sequence of one-character strings.  What curses paints into a *)
(* window is not part of the state; the geometry of the curses windows     *)
(* (w.win, w.nwin, sbar) is.                                               *)
(***************************************************************************)
EXTENDS Integers, Sequences, FiniteSets, TLC

VARIABLES
    windows,      \* Screen.windows: list of window objects (FileTailer + fields)
    inactive,     \* Screen.inactive: the objects in it, by identity
    backloglen,   \* Screen.backloglen
    sbar,         \* Screen.sbar: geometry and text of the status bar
    crashed,      \* "none", or the exception that ended the program
    height,       \* root.getmaxyx()[0]
    width,        \* root.getmaxyx()[1]
    lockfindts,   \* lockfindts[0], as a time relative to now
    opts,         \* the parsed options
    lock,         \* per build: state of its .portage_lockfile
    logs,         \* per source: whether its log file is there, and its content
    world,        \* what the environment does: the builds that run, the logs that grow
    pc,           \* "start" before n.loop, "loop" in it
    stream,       \* history: all text given to append so far (backlog specification)
    last          \* history: the handler that ran last and what it met

vars == <<windows, inactive, backloglen, sbar, crashed, height, width,
          lockfindts, opts, lock, logs, world, pc, stream, last>>

None == "None"      \* Python None where a string is expected
NoWin == <<>>       \* Python None (or a deleted attribute) where a curses window is expected

----------------------------------------------------------------------------
(* Bounds of the model *)

MaxLog == 1         \* a log file holds at most MaxLog characters
MaxExpect == 2      \* no lock poll is made once an expectclose has reached MaxExpect
MaxHeight == 13     \* largest terminal height of the layout specification
MaxWins == 4        \* most windows of the layout specification
MaxFeed == 3        \* longest stream of the backlog specification
MaxChunk == 2       \* longest chunk of the backlog specification
MaxCapRows == 3     \* the backlog specification's terminals have 2..2+MaxCapRows rows

(* the sources that may appear; "_fetch" is the reserved fetch-log basedir *)
Fetch == "_fetch"
Builds == {"p/c/a", "p/c/b"}
Sources == Builds \cup {Fetch}

NL == "\n"
Chars == {"x", NL}
LogChars == {"x"}   \* what the builds write into their logs

LockStates == {"absent", "free", "held"}

(* terminal sizes the environment switches between, as <<height, width>> *)
Sizes == {<<2, 1>>, <<5, 1>>}

(* The runs explored: the options given, and what runs beside the monitor.  *)
(* Without the fetch log (-F) two builds that write nothing, and no forced  *)
(* pulls; with the fetch log one build that writes its log, under forced    *)
(* pulls.  Intervals are in seconds.                                        *)
InactChoices == {0, 1}
Scenarios ==
    {[opts |-> [inact |-> i, pullint |-> 0, lockcheck |-> 1, lockfind |-> 1,
                watchfetch |-> FALSE],
      world |-> [builds |-> Builds, writes |-> {}]] : i \in InactChoices}
    \cup
    {[opts |-> [inact |-> i, pullint |-> 1, lockcheck |-> 1, lockfind |-> 1,
                watchfetch |-> TRUE],
      world |-> [builds |-> {"p/c/a"}, writes |-> {"p/c/a"}]] : i \in InactChoices}

----------------------------------------------------------------------------
(* Time.  Every time stamp of the program is kept relative to the present:  *)
(* time.time() is 0 and a stamp taken t seconds ago is -t.  The code only   *)
(* compares ts - stamp with an interval, so a stamp older than the interval *)
(* it is compared with is kept at the age that already decides the          *)
(* comparison (horizon).                                                    *)

now == 0

(* a stamp one second later, for a stamp compared with intervals < horizon *)
aged(stamp, horizon) == IF stamp - 1 < 0 - horizon THEN 0 - horizon ELSE stamp - 1

----------------------------------------------------------------------------
(* Helpers on sequences *)

Min(a, b) == IF a < b THEN a ELSE b
Max(a, b) == IF a > b THEN a ELSE b

(* Python s[start:] for a start that may be negative *)
PySliceFrom(s, start) ==
    LET n == Len(s)
        st == IF start < 0 THEN Max(0, n + start) ELSE Min(start, n)
    IN  SubSeq(s, st + 1, n)

(* text.endswith('\n') *)
endswith_nl(text) == Len(text) > 0 /\ text[Len(text)] = NL

(* list.remove / del of the element at index i *)
RemoveAt(s, i) == SubSeq(s, 1, i - 1) \o SubSeq(s, i + 1, Len(s))

Idx(ws) == DOMAIN ws

----------------------------------------------------------------------------
(* check_lock(path): True exactly when another process holds the lock; an   *)
(* unlocked ("stale") or missing lock file gives False.                     *)

check_lock(st) == st = "held"

----------------------------------------------------------------------------
(* class Screen.  A Screen value S is the record                            *)
(*   [windows, inactive, backloglen, sbar, err]                             *)
(* where err names the exception that is propagating, "none" if none.       *)
(* A method applied while an exception propagates does nothing.             *)

(* the geometry of curses.newwin(nlines, ncols, y, 0) *)
newwin(nlines, ncols, y) == <<y, nlines, ncols>>
WinY(win) == win[1]
WinRows(win) == win[2]
WinCols(win) == win[3]

(* Screen.findwin: index of the first window with that basedir, 0 for None *)
findwin(ws, basedir) ==
    IF \E i \in Idx(ws) : ws[i].basedir = basedir
    THEN CHOOSE i \in Idx(ws) :
            /\ ws[i].basedir = basedir
            /\ \A j \in 1..(i - 1) : ws[j].basedir # basedir
    ELSE 0

(* jobshare without the 4-row minimum of lines 118-121 *)
jobshare_nomin(avail, jobcount) ==
    LET rows0 == avail \div jobcount
        left0 == avail % jobcount
    IN  [err |-> "none", jobcount |-> jobcount,
         jobrows |-> IF left0 > 0 THEN rows0 + 1 ELSE rows0,
         jobrowsleft |-> IF left0 > 0 THEN left0 + 1 ELSE left0]

(* the rows per job and the jobs shown, lines 116-124, for jobcount > 0 *)
jobshare(avail, jobcount) ==
    LET rows0 == avail \div jobcount
        left0 == avail % jobcount
        small == rows0 < 4
        cnt == IF small THEN avail \div 4 ELSE jobcount
    IN  IF small /\ cnt = 0
        THEN [err |-> "ZeroDivisionError", jobcount |-> 0, jobrows |-> 4,
              jobrowsleft |-> 0]
        ELSE LET rows1 == IF small THEN 4 ELSE rows0
                 left1 == IF small THEN avail % cnt ELSE left0
             IN  [err |-> "none", jobcount |-> cnt,
                  jobrows |-> IF left1 > 0 THEN rows1 + 1 ELSE rows1,
                  jobrowsleft |-> IF left1 > 0 THEN left1 + 1 ELSE left1]

(* the effect of lines 187-291 of append on the window object: the text is  *)
(* drawn only into a window that has a region, and the window remembers     *)
(* whether a trailing newline is still owed.                                *)
draw(w, text) ==
    IF w.win # NoWin THEN [w EXCEPT !.newline = endswith_nl(text)] ELSE w

(* lines 134-143 of redraw for one shown window: its region, the replay of  *)
(* its backlog by append(w, w.backlog, True), its title bar                 *)
show(w, jobrows, starty) ==
    LET w1 == [w EXCEPT !.win = newwin(jobrows - 1, width, starty),
                        !.newline = FALSE,
                        !.activity = now]
    IN  [draw(w1, w.backlog) EXCEPT !.nwin = newwin(1, width, starty + jobrows - 1)]

hide(w) == [w EXCEPT !.win = NoWin, !.nwin = NoWin]

(* the loop of lines 127-157 from window i on *)
RECURSIVE place(_, _, _, _, _, _, _)
place(ws, inact, i, jobcount, jobrows, jobrowsleft, starty) ==
    IF i > Len(ws) THEN ws
    ELSE IF ws[i].id \notin inact /\ jobcount > 0
    THEN LET left == IF jobrowsleft > 0 THEN jobrowsleft - 1 ELSE jobrowsleft
             rows == IF jobrowsleft > 0 /\ left = 0 THEN jobrows - 1 ELSE jobrows
         IN  place([ws EXCEPT ![i] = show(ws[i], rows, starty)], inact, i + 1,
                   jobcount - 1, rows, left, starty + rows)
    ELSE place([ws EXCEPT ![i] = hide(ws[i])], inact, i + 1,
               jobcount, jobrows, jobrowsleft, starty)

(* Screen.redraw *)
redraw(S) ==
    IF S.err # "none" THEN S
    ELSE LET mergecount == Cardinality({i \in Idx(S.windows) :
                                           S.windows[i].basedir # Fetch})
             jobcount == Len(S.windows) - Cardinality(S.inactive)
             deleted == [i \in Idx(S.windows) |-> hide(S.windows[i])]
             S1 == [S EXCEPT !.backloglen = (height - 2) * width,
                             !.sbar = [win |-> newwin(1, width, height - 1),
                                       mergecount |-> mergecount],
                             !.windows = deleted]
         IN  IF jobcount > 0
             THEN LET sh == jobshare(height - 1, jobcount)
                  IN  IF sh.err # "none" THEN [S1 EXCEPT !.err = sh.err]
                      ELSE [S1 EXCEPT !.windows =
                                place(deleted, S.inactive, 1, sh.jobcount,
                                      sh.jobrows, sh.jobrowsleft, 0)]
             ELSE S1

(* lines 184-185: the backlog keeps bl[-backloglen:] *)
backlog_add(backlog, text, n) == PySliceFrom(backlog \o text, 0 - n)

(* Screen.append(w, text) with omitbacklog false, w the window at index i *)
append(S, i, text) ==
    IF S.err # "none" THEN S
    ELSE LET id == S.windows[i].id
             S1 == [S EXCEPT !.windows[i].activity = now,
                             !.windows[i].fed = now]
             S2 == IF id \in S1.inactive
                   THEN redraw([S1 EXCEPT !.inactive = @ \ {id}])
                   ELSE S1
         IN  IF S2.err # "none" THEN S2
             ELSE LET w == S2.windows[i]
                      w1 == [w EXCEPT !.backlog =
                                backlog_add(w.backlog, text, S2.backloglen)]
                  IN  [S2 EXCEPT !.windows[i] = draw(w1, text)]

(* a fresh object identity *)
NewId(ws) == CHOOSE n \in 1..(Len(ws) + 1) : \A i \in Idx(ws) : ws[i].id # n

(* Screen.addwin(win, basedir, lockfn) for the FileTailer tailer *)
addwin(S, tailer, basedir, lockfn) ==
    IF S.err # "none" THEN S
    ELSE LET w == [id |-> NewId(S.windows), basedir |-> basedir,
                   lockfn |-> lockfn, backlog |-> <<>>, activity |-> now,
                   fed |-> now,
                   lockcheck |-> now, expectclose |-> 0,
                   pullts |-> tailer.pullts, pos |-> tailer.pos,
                   win |-> NoWin, nwin |-> NoWin, newline |-> FALSE]
         IN  redraw([S EXCEPT !.windows = Append(@, w)])

(* Screen.delwin(win) for the window at index i *)
delwin(S, i) ==
    IF S.err # "none" THEN S
    ELSE redraw([S EXCEPT !.windows = RemoveAt(@, i),
                          !.inactive = @ \ {S.windows[i].id}])

----------------------------------------------------------------------------
(* class FileTailer.  The open file is the position pos in the log.         *)

(* FileTailer.reopen: seek(-backloglen, SEEK_END); a seek before the start  *)
(* of the file raises IOError, which is ignored and leaves position 0       *)
reopen(file, n) == IF n > Len(file) THEN 0 ELSE Len(file) - n

(* FileTailer(fn, scr) for an existing file *)
FileTailer(file, n) == [pullts |-> now, pos |-> reopen(file, n)]

(* FileTailer.pull: what read() returns, <<>> standing for None *)
pulled(w, file) ==
    IF w.pos < Len(file) THEN SubSeq(file, w.pos + 1, Len(file)) ELSE <<>>

(* FileTailer.pull: the tailer afterwards *)
pull(w, file) ==
    [w EXCEPT !.pullts = now, !.pos = IF @ < Len(file) THEN Len(file) ELSE @]

(* data = w.pull(); if data is not None: scr.append(w, data) *)
pull_append(S, i) ==
    IF S.err # "none" THEN S
    ELSE LET w == S.windows[i]
             file == logs[w.basedir].data
             S1 == [S EXCEPT !.windows[i] = pull(w, file)]
         IN  IF pulled(w, file) = <<>> THEN S1
             ELSE append(S1, i, pulled(w, file))

----------------------------------------------------------------------------
(* Screen.checkact *)

(* line 303 without its test of acttimeout != 0 *)
goes_inactive_always(w, inact, ts, acttimeout) ==
    w.id \notin inact /\ ts - w.activity >= acttimeout

(* line 303 *)
goes_inactive(w, inact, ts, acttimeout) ==
    acttimeout # 0 /\ w.id \notin inact /\ ts - w.activity >= acttimeout

(* line 307 *)
lockpoll_due(w, inact, ts, acttimeout, lockcheckint) ==
    /\ w.lockfn # None
    /\ (acttimeout = 0 \/ w.id \in inact)
    /\ ts - w.lockcheck >= lockcheckint

(* lines 308-312 for a window whose lock poll is due *)
lockpoll(w) ==
    IF ~check_lock(lock[w.lockfn])
    THEN [w EXCEPT !.expectclose = @ + 1]
    ELSE [w EXCEPT !.expectclose = @ + 1, !.lockcheck = now]

(* lines 307-312 for window i, w1, once the inactivity test is made.  R     *)
(* carries the Screen, the list winrem, the flag redraw, and, as history,   *)
(* the polls made: the window, what check_lock said, expectclose before and *)
(* after.                                                                   *)
checklock(R, S1, i, w1, idle, inact2, due) ==
    LET w2 == IF due THEN lockpoll(w1) ELSE w1
        gone == due /\ ~check_lock(lock[w1.lockfn])
    IN  [scr |-> [S1 EXCEPT !.inactive = inact2, !.windows[i] = w2],
         winrem |-> IF gone THEN Append(R.winrem, w1.id) ELSE R.winrem,
         redraw |-> R.redraw \/ idle,
         polls |-> IF due
                   THEN R.polls \cup {[id |-> w1.id, src |-> w1.basedir,
                                       held |-> ~gone,
                                       before |-> w1.expectclose,
                                       after |-> w2.expectclose]}
                   ELSE R.polls]

(* lines 303-305 for window i, w1, whether it goes inactive being idle *)
checkidle(R, S1, i, w1, idle, ts, acttimeout, lockcheckint) ==
    LET inact2 == IF idle THEN S1.inactive \cup {w1.id} ELSE S1.inactive
    IN  checklock(R, S1, i, w1, idle, inact2,
                  lockpoll_due(w1, inact2, ts, acttimeout, lockcheckint))

(* lines 303-312 for window i, S1 being the Screen after the pull of lines  *)
(* 298-301; an exception in the pull ends checkact                          *)
checkwin(R, S1, i, ts, acttimeout, lockcheckint) ==
    IF S1.err # "none" THEN [R EXCEPT !.scr = S1]
    ELSE checkidle(R, S1, i, S1.windows[i],
                   goes_inactive(S1.windows[i], S1.inactive, ts, acttimeout),
                   ts, acttimeout, lockcheckint)

(* the loop of lines 297-312 from window i on *)
RECURSIVE checkloop(_, _, _, _, _, _)
checkloop(R, i, ts, pullinterval, acttimeout, lockcheckint) ==
    IF R.scr.err # "none" \/ i > Len(R.scr.windows) THEN R
    ELSE checkloop(checkwin(R,
                            IF /\ pullinterval # 0
                               /\ ts - R.scr.windows[i].pullts >= pullinterval
                            THEN pull_append(R.scr, i)
                            ELSE R.scr,
                            i, ts, acttimeout, lockcheckint),
                   i + 1, ts, pullinterval, acttimeout, lockcheckint)

(* index of the object with identity id, list.remove's search *)
IndexOf(ws, id) == CHOOSE i \in Idx(ws) : ws[i].id = id

(* lines 314-315: for w in winrem: self.delwin(w) *)
RECURSIVE delwins(_, _)
delwins(S, winrem) ==
    IF S.err # "none" \/ winrem = <<>> THEN S
    ELSE delwins(delwin(S, IndexOf(S.windows, Head(winrem))), Tail(winrem))

(* lines 317-318: if redraw: self.redraw(); S1 is the Screen after the      *)
(* removals                                                                 *)
checkredraw(R, S1) ==
    [scr |-> IF R.redraw THEN redraw(S1) ELSE S1, polls |-> R.polls]

(* lines 314-318 after the loop has ended with R *)
checkend(R) == checkredraw(R, delwins(R.scr, R.winrem))

(* Screen.checkact; the result is the Screen and, as history, the polls     *)
checkact(S, ts, pullinterval, acttimeout, lockcheckint) ==
    checkend(checkloop([scr |-> S, winrem |-> <<>>, redraw |-> FALSE,
                        polls |-> {}],
                       1, ts, pullinterval, acttimeout, lockcheckint))

----------------------------------------------------------------------------
(* cursesmain.  Pathnames are kept as the kind of file and the build:       *)
(* <<"log", b>> is b/temp/build.log and <<"lock", b>> is the lock file      *)
(* .<package>.portage_lockfile of build b, for b a basedir root/cat/pkg.    *)

fetchlog == <<"/var/log/emerge-fetch.log">>
buildlog(b) == <<"log", b>>
lockfile(b) == <<"lock", b>>
elsewhere == <<"elsewhere">>

Paths == {fetchlog, elsewhere} \cup {buildlog(b) : b \in Builds}
            \cup {lockfile(b) : b \in Builds}

(* ppath(dir): the path split at its root, NoPath (None) for a path under  *)
(* no watched root                                                          *)
NoPath == <<>>
ppath(pathname) ==
    IF Len(pathname) = 2 /\ pathname[2] \in Builds THEN pathname ELSE NoPath

(* window_add without the findwin lookup: a window for every call *)
window_add_always(S, b) ==
    IF S.err # "none" \/ ~logs[b].there THEN [scr |-> S, w |-> 0]
    ELSE LET S1 == addwin(S, FileTailer(logs[b].data, S.backloglen), b, b)
         IN  [scr |-> S1, w |-> IF S1.err = "none" THEN Len(S1.windows) ELSE 0]

(* window_add(dir) for the build log of basedir b; w is the index of the    *)
(* window returned, 0 for None                                              *)
window_add(S, b) ==
    LET i == findwin(S.windows, b)
    IN  IF S.err # "none" THEN [scr |-> S, w |-> 0]
        ELSE IF i = 0
        THEN IF ~logs[b].there THEN [scr |-> S, w |-> 0]
             ELSE LET S1 == addwin(S, FileTailer(logs[b].data, S.backloglen), b, b)
                  IN  [scr |-> S1, w |-> IF S1.err = "none" THEN Len(S1.windows) ELSE 0]
        ELSE [scr |-> [S EXCEPT !.windows[i].pos = reopen(logs[b].data, S.backloglen)],
              w |-> i]

(* lines 428-434 of find_locks for one lock file found *)
find_lock(S, b) ==
    IF findwin(S.windows, b) = 0 /\ check_lock(lock[b])
    THEN LET r == window_add(S, b)
         IN  IF r.w # 0 THEN pull_append(r.scr, r.w) ELSE r.scr
    ELSE S

(* find_locks over the lock files that glob finds, most recent first *)
RECURSIVE find_locks(_, _)
find_locks(S, fl) ==
    IF S.err # "none" \/ fl = <<>> THEN S
    ELSE find_locks(find_lock(S, Head(fl)), Tail(fl))

(* the orders in which the lock files that exist may come by mtime *)
LockLists ==
    LET there == {b \in Builds : lock[b] # "absent"}
    IN  {fl \in [1..Cardinality(there) -> there] :
            \A i, j \in DOMAIN fl : i # j => fl[i] # fl[j]}

(* Inotifier.process_IN_MODIFY *)
process_IN_MODIFY(S, pathname) ==
    LET S1 == IF pathname = fetchlog /\ findwin(S.windows, Fetch) = 0
              THEN addwin(S, FileTailer(logs[Fetch].data, S.backloglen), Fetch, None)
              ELSE S
        i == IF pathname = fetchlog THEN findwin(S1.windows, Fetch)
             ELSE IF ppath(pathname) = NoPath THEN 0
             ELSE findwin(S1.windows, ppath(pathname)[2])
    IN  IF i # 0 THEN pull_append(S1, i) ELSE S1

(* lines 467-473 without the fetch log's own case *)
close_basedir_nofetch(pathname) ==
    IF ppath(pathname) = NoPath THEN None ELSE ppath(pathname)[2]

(* lines 467-473: the basedir a close-write event is about *)
close_basedir(pathname) ==
    IF pathname = fetchlog THEN Fetch
    ELSE IF ppath(pathname) = NoPath THEN None
    ELSE ppath(pathname)[2]

(* line 477 with >= for > *)
close_expected_any(w) == w.expectclose >= 0

(* line 477 *)
close_expected(w) == w.expectclose > 0

(* process_IN_CLOSE_WRITE without the expectclose test: always delwin *)
process_IN_CLOSE_WRITE_always(S, pathname) ==
    LET basedir == close_basedir(pathname)
        i == IF basedir = None THEN 0 ELSE findwin(S.windows, basedir)
    IN  IF i = 0 THEN S ELSE delwin(S, i)

(* Inotifier.process_IN_CLOSE_WRITE *)
process_IN_CLOSE_WRITE(S, pathname) ==
    LET basedir == close_basedir(pathname)
        i == IF basedir = None THEN 0 ELSE findwin(S.windows, basedir)
    IN  IF i = 0 THEN S
        ELSE IF close_expected(S.windows[i])
        THEN [S EXCEPT !.windows[i].expectclose = @ - 1]
        ELSE delwin(S, i)

----------------------------------------------------------------------------
(* The state machine *)

Scr == [windows |-> windows, inactive |-> inactive, backloglen |-> backloglen,
        sbar |-> sbar, err |-> crashed]

SetScr(S) ==
    /\ windows' = S.windows
    /\ inactive' = S.inactive
    /\ backloglen' = S.backloglen
    /\ sbar' = S.sbar
    /\ crashed' = S.err

(* history: the handler that ran, the path of its event, whether it found a *)
(* window for that path                                                      *)
Did(op, pathname, hit) == [op |-> op, path |-> pathname, hit |-> hit]

HasWin(ws, basedir) == findwin(ws, basedir) # 0

Running == crashed = "none" /\ pc = "loop"

(* Screen.__init__ under some terminal size and options, before any build   *)
(* is looked for; the environment is in any state                           *)
Init ==
    /\ \E sz \in Sizes : height = sz[1] /\ width = sz[2]
    /\ \E sc \in Scenarios : opts = sc.opts /\ world = sc.world
    /\ lock \in [Builds -> LockStates]
    /\ \A b \in Builds \ world.builds : lock[b] = "absent"
    /\ \E there \in SUBSET world.builds :
          logs = [s \in Sources |-> [there |-> s \in there \cup {Fetch},
                                     data |-> <<>>]]
    /\ windows = <<>>
    /\ inactive = {}
    /\ backloglen = (height - 2) * width
    /\ sbar = [win |-> newwin(1, width, height - 1), mergecount |-> 0]
    /\ crashed = "none"
    /\ lockfindts = 0 - (opts.lockfind + 1)    \* the epoch: long ago
    /\ pc = "start"
    /\ stream = <<>>
    /\ last = Did("init", NoPath, FALSE)

(* lines 491-492 without --omit-running: find_locks(time.time()) *)
StartScan ==
    /\ pc = "start" /\ crashed = "none"
    /\ \E fl \in LockLists :
          LET S == find_locks(Scr, fl)
          IN  /\ SetScr(S)
              /\ lockfindts' = IF S.err = "none" THEN now ELSE lockfindts
    /\ pc' = "loop"
    /\ last' = Did("find_locks", NoPath, FALSE)
    /\ UNCHANGED <<height, width, opts, lock, logs, world, stream>>

(* lines 491-492 with --omit-running *)
StartOmit ==
    /\ pc = "start" /\ crashed = "none"
    /\ pc' = "loop"
    /\ last' = Did("omit", NoPath, FALSE)
    /\ UNCHANGED <<windows, inactive, backloglen, sbar, crashed, height, width, lockfindts, opts, lock, logs, world, stream>>

(* Inotifier.process_IN_CREATE for the build.log of build b *)
InCreate(b) ==
    /\ Running
    /\ logs[b].there
    /\ LET r == window_add(Scr, b)
       IN  /\ SetScr(r.scr)
           /\ lockfindts' = IF r.scr.err = "none" THEN now ELSE lockfindts
    /\ last' = Did("IN_CREATE", buildlog(b), HasWin(windows, b))
    /\ UNCHANGED <<height, width, opts, lock, logs, world, pc, stream>>

(* Inotifier.process_IN_MODIFY for a watched log *)
InModify(pathname) ==
    /\ Running
    /\ pathname = fetchlog => opts.watchfetch
    /\ logs[IF pathname = fetchlog THEN Fetch ELSE pathname[2]].there
    /\ SetScr(process_IN_MODIFY(Scr, pathname))
    /\ last' = Did("IN_MODIFY", pathname,
                 HasWin(windows, IF pathname = fetchlog THEN Fetch ELSE pathname[2]))
    /\ UNCHANGED <<height, width, lockfindts, opts, lock, logs, world, pc, stream>>

(* Inotifier.process_IN_CLOSE_WRITE for the fetch log or a lock file; events *)
(* arrive after any delay, also when the file is gone again                 *)
InCloseWrite(pathname) ==
    /\ Running
    /\ pathname = fetchlog => opts.watchfetch
    /\ SetScr(process_IN_CLOSE_WRITE(Scr, pathname))
    /\ last' = Did("IN_CLOSE_WRITE", pathname, HasWin(windows, close_basedir(pathname)))
    /\ UNCHANGED <<height, width, lockfindts, opts, lock, logs, world, pc, stream>>

(* lines 486-487 of timeriter, S being the Screen after checkact *)
timerscan(S) ==
    IF opts.lockfind # 0 /\ now - lockfindts > opts.lockfind
    THEN \E fl \in LockLists :
            /\ SetScr(find_locks(S, fl))
            /\ lockfindts' = IF find_locks(S, fl).err = "none" THEN now
                             ELSE lockfindts
    ELSE SetScr(S) /\ UNCHANGED lockfindts

(* timeriter *)
Timer ==
    /\ Running
    /\ \A i \in Idx(windows) : windows[i].expectclose < MaxExpect
    /\ last' = Did("timeriter", NoPath, FALSE)
    /\ timerscan(checkact(Scr, now, opts.pullint, opts.inact, opts.lockcheck).scr)
    /\ UNCHANGED <<height, width, opts, lock, logs, world, pc, stream>>

(* the environment *)

Tick ==
    /\ Running
    /\ windows' = [i \in Idx(windows) |->
                      [windows[i] EXCEPT !.activity = aged(@, opts.inact),
                                         !.fed = aged(@, opts.inact),
                                         !.lockcheck = aged(@, opts.lockcheck),
                                         !.pullts = aged(@, opts.pullint)]]
    /\ lockfindts' = aged(lockfindts, opts.lockfind + 1)
    /\ last' = Did("env", NoPath, FALSE)
    /\ UNCHANGED <<inactive, backloglen, sbar, crashed, height, width,
                   opts, lock, logs, world, pc, stream>>

Resize(sz) ==
    /\ Running
    /\ <<height, width>> # sz
    /\ height' = sz[1] /\ width' = sz[2]
    /\ last' = Did("env", NoPath, FALSE)
    /\ UNCHANGED <<windows, inactive, backloglen, sbar, crashed, lockfindts, opts, lock, logs, world, pc, stream>>

LockChange(b, st) ==
    /\ Running
    /\ b \in world.builds
    /\ lock[b] # st
    /\ lock' = [lock EXCEPT ![b] = st]
    /\ last' = Did("env", NoPath, FALSE)
    /\ UNCHANGED <<windows, inactive, backloglen, sbar, crashed, height, width, lockfindts, opts, logs, world, pc, stream>>

LogCreate(b) ==
    /\ Running
    /\ b \in world.builds
    /\ ~logs[b].there
    /\ logs' = [logs EXCEPT ![b].there = TRUE]
    /\ last' = Did("env", NoPath, FALSE)
    /\ UNCHANGED <<windows, inactive, backloglen, sbar, crashed, height, width, lockfindts, opts, lock, world, pc, stream>>

LogWrite(s, c) ==
    /\ Running
    /\ s \in world.writes
    /\ logs[s].there
    /\ Len(logs[s].data) < MaxLog
    /\ logs' = [logs EXCEPT ![s].data = Append(@, c)]
    /\ last' = Did("env", NoPath, FALSE)
    /\ UNCHANGED <<windows, inactive, backloglen, sbar, crashed, height, width, lockfindts, opts, lock, world, pc, stream>>

Next ==
    \/ StartScan
    \/ StartOmit
    \/ \E b \in Builds : InCreate(b)
    \/ \E b \in Builds : InModify(buildlog(b))
    \/ InModify(fetchlog)
    \/ \E b \in Builds : InCloseWrite(lockfile(b))
    \/ InCloseWrite(fetchlog)
    \/ Timer
    \/ Tick
    \/ \E sz \in Sizes : Resize(sz)
    \/ \E b \in Builds, st \in LockStates : LockChange(b, st)
    \/ \E b \in Builds : LogCreate(b)
    \/ \E s \in Sources, c \in LogChars : LogWrite(s, c)

Spec == Init /\ [][Next]_vars

----------------------------------------------------------------------------
(* The layout specification: Screen.redraw applied once to a Screen with    *)
(* any number of windows, any of them inactive, under any terminal size.    *)

LayoutNames == <<"p/c/a", "p/c/b", Fetch, "p/c/c", "p/c/d", "p/c/e">>
LayoutWidths == {1, 2}

(* the window objects as addwin leaves them before its redraw *)
LayoutWindows(n) ==
    [i \in 1..n |->
        [id |-> i, basedir |-> LayoutNames[i],
         lockfn |-> IF LayoutNames[i] = Fetch THEN None ELSE LayoutNames[i],
         backlog |-> <<>>, activity |-> now, fed |-> now, lockcheck |-> now,
         expectclose |-> 0, pullts |-> now, pos |-> 0,
         win |-> NoWin, nwin |-> NoWin, newline |-> FALSE]]

InitLayout ==
    /\ height \in 1..MaxHeight
    /\ width \in LayoutWidths
    /\ \E n \in 0..MaxWins :
          /\ windows = LayoutWindows(n)
          /\ inactive \in SUBSET (1..n)
    /\ backloglen = (height - 2) * width
    /\ sbar = [win |-> newwin(1, width, height - 1), mergecount |-> 0]
    /\ crashed = "none"
    /\ lockfindts = 0
    /\ opts = [inact |-> 1, pullint |-> 0, lockcheck |-> 1, lockfind |-> 0,
               watchfetch |-> TRUE]
    /\ lock = [b \in Builds |-> "held"]
    /\ logs = [s \in Sources |-> [there |-> TRUE, data |-> <<>>]]
    /\ world = [builds |-> {}, writes |-> {}]
    /\ pc = "layout"
    /\ stream = <<>>
    /\ last = Did("init", NoPath, FALSE)

LayoutRedraw ==
    /\ pc = "layout"
    /\ SetScr(redraw(Scr))
    /\ pc' = "drawn"
    /\ last' = Did("redraw", NoPath, FALSE)
    /\ UNCHANGED <<height, width, lockfindts, opts, lock, logs, world, stream>>

NextLayout == LayoutRedraw

SpecLayout == InitLayout /\ [][NextLayout]_vars

----------------------------------------------------------------------------
(* The backlog specification: Screen.append (omitbacklog false) applied to  *)
(* one window, chunk after chunk, under a fixed terminal size.  The window  *)
(* has no region, so that only lines 178-185 act.                           *)

BacklogWidths == {1, 2}

(* the chunks a pull may deliver: not empty, at most MaxChunk characters *)
Chunks == UNION {[1..n -> Chars] : n \in 1..MaxChunk}

InitBacklog ==
    /\ height \in 2..(2 + MaxCapRows)
    /\ width \in BacklogWidths
    /\ windows = LayoutWindows(1)
    /\ inactive = {}
    /\ backloglen = (height - 2) * width
    /\ sbar = [win |-> newwin(1, width, height - 1), mergecount |-> 1]
    /\ crashed = "none"
    /\ lockfindts = 0
    /\ opts = [inact |-> 1, pullint |-> 0, lockcheck |-> 1, lockfind |-> 0,
               watchfetch |-> TRUE]
    /\ lock = [b \in Builds |-> "held"]
    /\ logs = [s \in Sources |-> [there |-> TRUE, data |-> <<>>]]
    /\ world = [builds |-> {}, writes |-> {}]
    /\ pc = "backlog"
    /\ stream = <<>>
    /\ last = Did("init", NoPath, FALSE)

BacklogAppend(text) ==
    /\ pc = "backlog"
    /\ Len(stream) + Len(text) <= MaxFeed
    /\ SetScr(append(Scr, 1, text))
    /\ stream' = stream \o text
    /\ last' = Did("append", NoPath, TRUE)
    /\ UNCHANGED <<height, width, lockfindts, opts, lock, logs, world, pc>>

NextBacklog == \E text \in Chunks : BacklogAppend(text)

SpecBacklog == InitBacklog /\ [][NextBacklog]_vars

----------------------------------------------------------------------------
(* The event loop under its scheduling: pyinotify's Notifier.loop calls the *)
(* timer callback on every pass (line 498), at least once per timeout, and  *)
(* the clock advances.  The terminal keeps 5 rows, so that no redraw raises;*)
(* the inactivity timeout is on and the fetch log is watched.               *)

InitLive ==
    /\ Init
    /\ height = 5
    /\ opts.inact = 1
    /\ opts.watchfetch

NextLive ==
    \/ StartScan
    \/ StartOmit
    \/ \E b \in Builds : InCreate(b)
    \/ \E b \in Builds : InModify(buildlog(b))
    \/ InModify(fetchlog)
    \/ \E b \in Builds : InCloseWrite(lockfile(b))
    \/ InCloseWrite(fetchlog)
    \/ Timer
    \/ Tick
    \/ \E b \in Builds, st \in LockStates : LockChange(b, st)
    \/ \E b \in Builds : LogCreate(b)
    \/ \E s \in Sources, c \in LogChars : LogWrite(s, c)

(* the bound on expectclose does not stop the timer *)
TimerOn == \A i \in Idx(windows) : windows[i].expectclose < MaxExpect

(* the timer callback runs: the step of timeriter, told by the history it   *)
(* leaves; it is enabled exactly when Timer is                              *)
TimerRuns == Running /\ TimerOn /\ last' = Did("timeriter", NoPath, FALSE)

SpecLive ==
    InitLive /\ [][NextLive]_vars /\ WF_last(TimerRuns) /\ WF_vars(Tick)

----------------------------------------------------------------------------
(* Screen.append, lines 187-291: the drawing.  A text is a sequence of      *)
(* characters; ESC and BEL stand for the characters \x1b and \07.           *)

ESC == "ESC"
BEL == "BEL"

Digits == {"0", "1", "2", "3", "4", "5", "6", "7", "8", "9"}

(* the characters of the class [a-zA-Z@`] that the texts use *)
Finals == {"a", "b", "c", "d", "e", "f", "r", "x", "m",
           "A", "B", "C", "D", "E", "F", "G", "H", "J"}

(* line 45, escregex: \x1b\[(?:\d*;)*\d*[a-zA-Z@`]|\07.  escend is the end  *)
(* of the run of digits and semicolons from j on, matchlen the length of    *)
(* the match that starts at i, 0 for none                                   *)
RECURSIVE escend(_, _)
escend(text, j) ==
    IF j <= Len(text) /\ text[j] \in Digits \cup {";"}
    THEN escend(text, j + 1)
    ELSE j

matchlen(text, i) ==
    IF text[i] = BEL THEN 1
    ELSE IF text[i] = ESC /\ i < Len(text) /\ text[i + 1] = "["
    THEN IF /\ escend(text, i + 2) <= Len(text)
            /\ text[escend(text, i + 2)] \in Finals
         THEN escend(text, i + 2) - i + 1
         ELSE 0
    ELSE 0

(* line 199, escregex.split(text) from position i on, lit being the literal *)
(* run read so far: literal, match, literal, ..., literal                   *)
RECURSIVE split(_, _, _)
split(text, i, lit) ==
    IF i > Len(text) THEN <<lit>>
    ELSE IF matchlen(text, i) > 0
    THEN <<lit, SubSeq(text, i, i + matchlen(text, i) - 1)>>
         \o split(text, i + matchlen(text, i), <<>>)
    ELSE split(text, i + 1, Append(lit, text[i]))

(* str.split(';') of s from position i on, cur being the piece read so far *)
RECURSIVE splitsemi(_, _, _)
splitsemi(s, i, cur) ==
    IF i > Len(s) THEN <<cur>>
    ELSE IF s[i] = ";" THEN <<cur>> \o splitsemi(s, i + 1, <<>>)
    ELSE splitsemi(s, i + 1, Append(cur, s[i]))

(* line 216: args = ptext[i][2:-1].split(';') *)
csiargs(seq) == splitsemi(SubSeq(seq, 3, Len(seq) - 1), 1, <<>>)

(* line 215: func = ptext[i][-1] *)
csifunc(seq) == seq[Len(seq)]

(* int(a, 10) of a string of digits *)
DigitVal(c) == CHOOSE n \in 0..9 : <<"0", "1", "2", "3", "4", "5", "6", "7", "8", "9">>[n + 1] = c

RECURSIVE int10(_)
int10(a) ==
    IF Len(a) = 0 THEN 0
    ELSE int10(SubSeq(a, 1, Len(a) - 1)) * 10 + DigitVal(a[Len(a)])

(* lines 210-213: attrmapping and colrmapping, indexed from 0; the curses   *)
(* colours COLOR_BLACK .. COLOR_WHITE are the numbers 0 .. 7                *)
attrmapping == <<None, "A_BOLD", "A_DIM", None, "A_UNDERLINE", "A_BLINK",
                 None, "A_REVERSE">>
colrmapping == <<0, 1, 2, 3, 4, 5, 6, 7>>

(* Screen.getcolor: the colour pair of (fg, bg); while colour pairs last,   *)
(* one pair for each (fg, bg), and pair 0 for the default (-1, -1)          *)
getcolor(fg, bg) == <<fg, bg>>

(* the locals mode, fgcol, bgcol of lines 196-198 and the curses window     *)
(* w.win: its cursor (y, x), its current attributes, and, as history, the   *)
(* characters that addstr has put with the attributes of each               *)
interp(w) ==
    [cur |-> w.cur, attr |-> w.attr, out |-> w.out,
     mode |-> {}, fgcol |-> 0 - 1, bgcol |-> 0 - 1, err |-> "none"]

(* the attributes of a window that curses.newwin has made *)
A_NORMAL == [mode |-> {}, pair |-> getcolor(0 - 1, 0 - 1)]

(* lines 223-226 with the colours left as they are *)
sgrreset_modeonly(L) == [L EXCEPT !.mode = {}]

(* lines 223-226: the reset *)
sgrreset(L) == [L EXCEPT !.mode = {}, !.fgcol = 0 - 1, !.bgcol = 0 - 1]

(* lines 219-247 for the number n of one SGR parameter *)
sgrcode(L, n, debug) ==
    IF n = 0 THEN sgrreset(L)
    ELSE IF n \in {1, 2, 4, 5, 7}
    THEN [L EXCEPT !.mode = @ \cup {attrmapping[n + 1]}]
    ELSE IF n \in {21, 22}
    THEN [L EXCEPT !.mode = @ \ {attrmapping[1 + 1], attrmapping[2 + 1]}]
    ELSE IF n \in {24, 25, 27}
    THEN [L EXCEPT !.mode = @ \ {attrmapping[(n % 20) + 1]}]
    ELSE IF n >= 30 /\ n <= 37
    THEN [L EXCEPT !.fgcol = colrmapping[(n % 30) + 1]]
    ELSE IF n = 38
    THEN [L EXCEPT !.mode = @ \cup {"A_UNDERLINE"}, !.fgcol = 0 - 1]
    ELSE IF n = 39
    THEN [L EXCEPT !.mode = @ \ {"A_UNDERLINE"}, !.fgcol = 0 - 1]
    ELSE IF n >= 40 /\ n <= 47
    THEN [L EXCEPT !.bgcol = colrmapping[(n % 40) + 1]]
    ELSE IF n = 49
    THEN [L EXCEPT !.bgcol = 0 - 1]
    ELSE IF debug THEN [L EXCEPT !.err = "Unsupported SGR"]
    ELSE L

(* lines 219-222: the number of the parameter a, 0 for an empty one *)
sgrparam(a) == IF a # <<>> THEN int10(a) ELSE 0

(* lines 218-247: the loop over the parameters from the k-th on *)
RECURSIVE sgrargs(_, _, _, _)
sgrargs(L, args, k, debug) ==
    IF L.err # "none" \/ k > Len(args) THEN L
    ELSE sgrargs(sgrcode(L, sgrparam(args[k]), debug), args, k + 1, debug)

(* line 248: w.win.attrset(mode | self.getcolor(fgcol, bgcol)) *)
attrset(L) ==
    IF L.err # "none" THEN L
    ELSE [L EXCEPT !.attr = [mode |-> L.mode,
                            pair |-> getcolor(L.fgcol, L.bgcol)]]

(* lines 217-248: SGR *)
sgr(L, args, debug) == attrset(sgrargs(L, args, 1, debug))

(* ord() of the letters that matter to line 249; the small letters lie      *)
(* above the capitals                                                       *)
Capitals == <<"A", "B", "C", "D", "E", "F", "G", "H", "I", "J">>
ord(c) ==
    IF \E k \in DOMAIN Capitals : Capitals[k] = c
    THEN 64 + (CHOOSE k \in DOMAIN Capitals : Capitals[k] = c)
    ELSE 97

(* range(a, b) *)
range(a, b) == a..(b - 1)

(* line 249: ord(func) in range(ord('A'), ord('H')) *)
iscursor(func) == ord(func) \in range(ord("A"), ord("H"))

(* lines 278-285 without the sanity checks *)
clamp_none(v, max) == v

(* lines 278-285: the sanity checks on one coordinate *)
clamp(v, max) == IF v < 0 THEN 0 ELSE IF v >= max THEN max - 1 ELSE v

(* lines 253-256 *)
cursorarg(args) == IF args[1] # <<>> THEN int10(args[1]) ELSE 1

(* lines 258-275: the row and the column asked for, from (y, x); the branch *)
(* of H is written as the code has it, though line 249 keeps H out          *)
cursor_y(func, args, y) ==
    IF func \in {"A", "F"} THEN y - cursorarg(args)
    ELSE IF func \in {"B", "E"} THEN y + cursorarg(args)
    ELSE IF func = "H" THEN cursorarg(args) - 1
    ELSE y

cursor_x(func, args, x) ==
    IF func \in {"E", "F"} THEN 1
    ELSE IF func = "C" THEN x + cursorarg(args)
    ELSE IF func = "D" THEN x - cursorarg(args)
    ELSE IF func = "G" THEN cursorarg(args) - 1
    ELSE IF func = "H"
    THEN IF Len(args) >= 2 /\ args[2] # <<>> THEN int10(args[2]) - 1 ELSE 0
    ELSE x

(* lines 250-287: the cursor commands, in a window of rows x cols *)
cursor(L, func, args, rows, cols) ==
    [L EXCEPT !.cur = <<clamp(cursor_y(func, args, L.cur[1]), rows),
                        clamp(cursor_x(func, args, L.cur[2]), cols)>>]

(* lines 203-289 for one match of the regex *)
csi(L, seq, rows, cols, debug) ==
    IF seq = <<BEL>> THEN L
    ELSE IF csifunc(seq) = "m" THEN sgr(L, csiargs(seq), debug)
    ELSE IF iscursor(csifunc(seq))
    THEN cursor(L, csifunc(seq), csiargs(seq), rows, cols)
    ELSE IF debug THEN [L EXCEPT !.err = "Unsupported func"]
    ELSE L

(* curses: where the cursor is after a character is put at (y, x) of a      *)
(* window with scrollok: a newline goes to the start of the next row, the   *)
(* last column wraps, and past the last row the window scrolls              *)
advance(cur, c, rows, cols) ==
    IF c = NL \/ cur[2] + 1 >= cols
    THEN <<IF cur[1] + 1 >= rows THEN rows - 1 ELSE cur[1] + 1, 0>>
    ELSE <<cur[1], cur[2] + 1>>

(* w.win.addstr(s) from the k-th character on *)
RECURSIVE addstr(_, _, _, _, _)
addstr(L, s, k, rows, cols) ==
    IF k > Len(s) THEN L
    ELSE addstr([L EXCEPT !.out = Append(@, [ch |-> s[k], attr |-> L.attr]),
                          !.cur = advance(@, s[k], rows, cols)],
                s, k + 1, rows, cols)

(* lines 200-289: the loop over ptext from its i-th piece on; the pieces at *)
(* even Python indices are literal                                          *)
RECURSIVE drawloop(_, _, _, _, _, _)
drawloop(L, ptext, i, rows, cols, debug) ==
    IF L.err # "none" \/ i > Len(ptext) THEN L
    ELSE drawloop(IF (i - 1) % 2 = 0
                  THEN addstr(L, ptext[i], 1, rows, cols)
                  ELSE csi(L, ptext[i], rows, cols, debug),
                  ptext, i + 1, rows, cols, debug)

(* lines 191-193 without the delay: the newline stays in the text *)
chunktext_all(text) == text

(* lines 191-193: the text without the newline that is delayed *)
chunktext(text) ==
    IF endswith_nl(text) THEN SubSeq(text, 1, Len(text) - 1) ELSE text

(* lines 189-190: the newline that was delayed is put first *)
owed(L, newline, rows, cols) ==
    IF newline THEN addstr(L, <<NL>>, 1, rows, cols) ELSE L

(* the window after the drawing that ended with L *)
drawn(w, text, L) ==
    [w EXCEPT !.newline = endswith_nl(text), !.cur = L.cur, !.attr = L.attr,
              !.out = L.out, !.err = L.err]

(* lines 187-291 for a window that holds the fields cur, attr, out of its   *)
(* curses window; err is the exception raised, "none" for none              *)
render(w, text, debug) ==
    IF w.win = NoWin THEN w
    ELSE drawn(w, text,
               drawloop(owed(interp(w), w.newline, WinRows(w.win), WinCols(w.win)),
                        split(chunktext(text), 1, <<>>), 1,
                        WinRows(w.win), WinCols(w.win), debug))

----------------------------------------------------------------------------
(* The interpreter specification: the loop of lines 200-289 at work in one  *)
(* shown window, one match of the regex after another.  The window record   *)
(* holds, besides the fields of the window object, the state of its curses  *)
(* window (cur, attr, out) and the locals of append (mode, fgcol, bgcol).   *)

(* rows and columns of the regions the interpreter is run in; a region has  *)
(* three rows or more (lines 118-119: jobrows is at least 4)                *)
CsiSizes == {<<3, 1>>, <<3, 2>>}

(* the matches of the regex that are fed to the interpreter *)
Pieces ==
    {<<BEL>>} \cup
    {<<ESC, "[">> \o a \o <<"m">> :
        a \in {<<>>, <<"0">>, <<"1">>, <<"4">>, <<"2", "2">>, <<"2", "4">>,
               <<"3", "1">>, <<"3", "8">>, <<"3", "9">>, <<"4", "1">>,
               <<"4", "9">>, <<"9", "9">>, <<"1", ";", "3", "1">>,
               <<"1", ";">>, <<"0", ";", "0">>}} \cup
    {<<ESC, "[">> \o a \o <<f>> :
        a \in {<<>>, <<"1">>, <<"9">>, <<"2", ";", "2">>},
        f \in {"A", "B", "C", "D", "E", "F", "G", "H", "J"}}

(* the options, with the flag of line 505 *)
Options(debug) ==
    [inact |-> 0, pullint |-> 0, lockcheck |-> 1, lockfind |-> 0,
     watchfetch |-> TRUE, debug |-> debug]

(* the one window, shown in a region of rows x cols at the top *)
Shown1(rows, cols) ==
    [id |-> 1, basedir |-> LayoutNames[1], lockfn |-> LayoutNames[1],
     backlog |-> <<>>, activity |-> now, fed |-> now, lockcheck |-> now,
     expectclose |-> 0, pullts |-> now, pos |-> 0,
     win |-> newwin(rows, cols, 0), nwin |-> newwin(1, cols, rows),
     newline |-> FALSE,
     cur |-> <<0, 0>>, attr |-> A_NORMAL, out |-> <<>>, err |-> "none"]

(* the loop of lines 200-289 in progress in the window w *)
inloop(w) ==
    [cur |-> w.cur, attr |-> w.attr, out |-> w.out,
     mode |-> w.mode, fgcol |-> w.fgcol, bgcol |-> w.bgcol, err |-> "none"]

looped(w, L) ==
    [w EXCEPT !.cur = L.cur, !.attr = L.attr, !.out = L.out, !.err = L.err,
              !.mode = L.mode, !.fgcol = L.fgcol, !.bgcol = L.bgcol]

InitCsi ==
    /\ \E g \in CsiSizes :
          /\ height = g[1] + 2
          /\ width = g[2]
          /\ windows = <<Shown1(g[1], g[2]) @@
                         [mode |-> {}, fgcol |-> 0 - 1, bgcol |-> 0 - 1]>>
          /\ sbar = [win |-> newwin(1, g[2], g[1] + 1), mergecount |-> 1]
    /\ inactive = {}
    /\ backloglen = (height - 2) * width
    /\ crashed = "none"
    /\ lockfindts = 0
    /\ opts \in {Options(d) : d \in BOOLEAN}
    /\ lock = [b \in Builds |-> "held"]
    /\ logs = [s \in Sources |-> [there |-> TRUE, data |-> <<>>]]
    /\ world = [builds |-> {}, writes |-> {}]
    /\ pc = "csi"
    /\ stream = <<>>
    /\ last = Did("init", NoPath, FALSE)

(* one pass of the loop body for the match seq; stream keeps the match and  *)
(* last.hit tells whether the pass changed the window                       *)
CsiStep(seq) ==
    /\ pc = "csi"
    /\ crashed = "none"
    /\ windows' = <<looped(windows[1],
                           csi(inloop(windows[1]), seq,
                               WinRows(windows[1].win), WinCols(windows[1].win),
                               opts.debug))>>
    /\ crashed' = windows'[1].err
    /\ stream' = <<seq>>
    /\ last' = Did("csi", NoPath, windows' # windows)
    /\ UNCHANGED <<inactive, backloglen, sbar, height, width, lockfindts, opts,
                   lock, logs, world, pc>>

NextCsi == \E seq \in Pieces : CsiStep(seq)

SpecCsi == InitCsi /\ [][NextCsi]_vars

----------------------------------------------------------------------------
(* The rendering specification: one window, shown alone on a terminal that  *)
(* keeps its size, is fed chunk after chunk by Screen.append, and is drawn  *)
(* anew by Screen.redraw, which replays its backlog.  stream keeps the      *)
(* chunks delivered; pc tells whether a redraw has replayed the backlog.    *)

(* lines 178 and 183-291 of append for a window that is not inactive, with  *)
(* the drawing; n is self.backloglen                                        *)
append_drawn(w, text, n, debug) ==
    render([w EXCEPT !.activity = now, !.fed = now,
                     !.backlog = backlog_add(w.backlog, text, n)],
           text, debug)

(* lines 134-143 of redraw for one shown window, with the drawing: a new    *)
(* curses window, and the replay of the backlog as one chunk                *)
show_drawn(w, jobrows, starty, debug) ==
    render([w EXCEPT !.win = newwin(jobrows - 1, width, starty),
                     !.nwin = newwin(1, width, starty + jobrows - 1),
                     !.newline = FALSE, !.activity = now,
                     !.cur = <<0, 0>>, !.attr = A_NORMAL, !.out = <<>>],
           w.backlog, debug)

(* rows and columns of the terminal *)
RenderSize == <<5, 10>>

(* the most chunks delivered *)
MaxRender == 2

ScenarioB ==
    <<"a", "b", "c", ESC, "[", "3", "1", "m", "r", "e", "d",
      ESC, "[", "0", "m", "d", "e", "f", NL>>

(* the chunks a pull may deliver *)
RenderChunks ==
    {ScenarioB,
     <<"x">>, <<NL>>, <<"x", NL>>, <<NL, "x", NL>>,
     <<ESC, "[", "1", "m", "x">>, <<ESC, "[", "3", "1", "m", "x">>,
     <<"x", ESC, "[", "3">>, <<"1", "m", "x">>,
     <<"x", ESC, "[", "9", "9", "m", "x">>, <<"x", ESC, "[", "J", "x", NL>>,
     <<"x", ESC, "[", "E", "x">>}

InitRender ==
    /\ height = RenderSize[1]
    /\ width = RenderSize[2]
    /\ windows = <<Shown1(height - 2, width)>>
    /\ inactive = {}
    /\ backloglen = (height - 2) * width
    /\ sbar = [win |-> newwin(1, width, height - 1), mergecount |-> 1]
    /\ crashed = "none"
    /\ lockfindts = 0
    /\ opts \in {Options(d) : d \in BOOLEAN}
    /\ lock = [b \in Builds |-> "held"]
    /\ logs = [s \in Sources |-> [there |-> TRUE, data |-> <<>>]]
    /\ world = [builds |-> {}, writes |-> {}]
    /\ pc = "live"
    /\ stream = <<>>
    /\ last = Did("init", NoPath, FALSE)

(* Screen.append(w, text) *)
RenderAppend(text) ==
    /\ pc \in {"live", "replayed"}
    /\ crashed = "none"
    /\ Len(stream) < MaxRender
    /\ windows' = <<append_drawn(windows[1], text, backloglen, opts.debug)>>
    /\ crashed' = windows'[1].err
    /\ stream' = Append(stream, text)
    /\ last' = Did("append", NoPath, TRUE)
    /\ UNCHANGED <<inactive, backloglen, sbar, height, width, lockfindts, opts,
                   lock, logs, world, pc>>

(* Screen.redraw with the one window, at the size the terminal has *)
RenderRedraw ==
    /\ pc \in {"live", "replayed"}
    /\ crashed = "none"
    /\ jobshare(height - 1, 1).err = "none"
    /\ windows' = <<show_drawn(windows[1], jobshare(height - 1, 1).jobrows, 0,
                               opts.debug)>>
    /\ crashed' = windows'[1].err
    /\ pc' = "replayed"
    /\ last' = Did("redraw", NoPath, TRUE)
    /\ UNCHANGED <<inactive, backloglen, sbar, height, width, lockfindts, opts,
                   lock, logs, world, stream>>

NextRender ==
    \/ \E text \in RenderChunks : RenderAppend(text)
    \/ RenderRedraw

SpecRender == InitRender /\ [][NextRender]_vars

----------------------------------------------------------------------------
(* Properties *)

Capacity == (height - 2) * width

Shown(ws) == {i \in Idx(ws) : ws[i].win # NoWin}

(* the screen rows a shown window takes: its region and its title row *)
RowsOf(w) == WinY(w.win)..WinY(w.nwin)

RECURSIVE SumRows(_, _)
SumRows(ws, i) ==
    IF i > Len(ws) THEN 0
    ELSE (IF ws[i].win # NoWin THEN WinRows(ws[i].win) + WinRows(ws[i].nwin) ELSE 0)
         + SumRows(ws, i + 1)

(* what the registry holds of a window, apart from its place on the screen  *)
(* (win, nwin, newline) and the activity stamp that a redraw renews         *)
Registry(w) ==
    [id |-> w.id, basedir |-> w.basedir, lockfn |-> w.lockfn,
     backlog |-> w.backlog, expectclose |-> w.expectclose,
     lockcheck |-> w.lockcheck, pullts |-> w.pullts, pos |-> w.pos]

Registered(ws) == [i \in Idx(ws) |-> Registry(ws[i])]

(* the last n characters of s, for n >= 0 *)
LastChars(s, n) == IF n >= Len(s) THEN s ELSE SubSeq(s, Len(s) - n + 1, Len(s))

(* C1: in every reachable state, under every interleaving of timer ticks    *)
(* (lock polls) and close-write events, the expectclose counter of every    *)
(* window in the registry is >= 0.                                          *)
C1_ExpectCloseNonNegative ==
    \A i \in Idx(windows) : windows[i].expectclose >= 0

(* a close-write event has just been suppressed by a counter that lock      *)
(* polls had raised to 2 or more                                            *)
C1_Witness ==
    /\ last.op = "IN_CLOSE_WRITE" /\ last.hit
    /\ \E i \in Idx(windows) :
          /\ windows[i].basedir = close_basedir(last.path)
          /\ windows[i].expectclose >= 1

(* a step that handles a close-write event on the fetch log while the fetch *)
(* window exists                                                            *)
FetchCloseStep ==
    /\ last'.op = "IN_CLOSE_WRITE" /\ last'.path = fetchlog
    /\ HasWin(windows, Fetch)

(* C2, as claimed: a close-write event on the fetch log processed while the *)
(* fetch window exists leaves the fetch window in the registry.             *)
C2_FetchWindowSurvivesClose ==
    [][FetchCloseStep => HasWin(windows', Fetch)]_vars

(* C2, amended: a close-write event on the fetch log processed while the    *)
(* fetch window exists finds it with no lock path and expectclose 0, and    *)
(* removes it from the registry.                                            *)
C2_FetchWindowRemovedByClose ==
    [][FetchCloseStep =>
          LET w == windows[findwin(windows, Fetch)]
          IN  /\ w.lockfn = None
              /\ w.expectclose = 0
              /\ ~HasWin(windows', Fetch)]_vars

C2_Witness ==
    /\ last = Did("IN_CLOSE_WRITE", fetchlog, TRUE)
    /\ ~HasWin(windows, Fetch)
    /\ Len(windows) >= 1

(* a step that handles a close-write event on the lock file of build b      *)
(* while b has a window                                                     *)
LockCloseStep(b) ==
    /\ last'.op = "IN_CLOSE_WRITE" /\ last'.path = lockfile(b)
    /\ HasWin(windows, b)

(* C3, as claimed: a close-write event for a window's lock file decrements  *)
(* a positive expectclose by one and keeps the window, or removes a window  *)
(* whose expectclose is 0; no other window is changed.                      *)
C3_CloseWriteChangesOneWindow ==
    [][\A b \in Builds :
          LockCloseStep(b) =>
             LET i == findwin(windows, b)
             IN  IF windows[i].expectclose > 0
                 THEN /\ windows' = [windows EXCEPT ![i].expectclose = @ - 1]
                      /\ inactive' = inactive
                 ELSE /\ windows' = RemoveAt(windows, i)
                      /\ inactive' = inactive \ {windows[i].id}]_vars

(* C3, amended: the decrement changes nothing else at all; the removal      *)
(* leaves every other window in the registry with its backlog, expectclose, *)
(* lock path and active/inactive status, and only recomputes the layout.    *)
C3_CloseWriteKeepsOthersRegistered ==
    [][\A b \in Builds :
          LockCloseStep(b) =>
             LET i == findwin(windows, b)
             IN  IF windows[i].expectclose > 0
                 THEN /\ windows' = [windows EXCEPT ![i].expectclose = @ - 1]
                      /\ inactive' = inactive
                      /\ crashed' = crashed
                 ELSE /\ Registered(windows') = Registered(RemoveAt(windows, i))
                      /\ inactive' = inactive \ {windows[i].id}]_vars

(* a close-write event has removed a build's window and the redraw that     *)
(* followed gave a region to another window                                 *)
C3_Witness ==
    /\ last.op = "IN_CLOSE_WRITE" /\ last.hit /\ last.path # fetchlog
    /\ ~HasWin(windows, close_basedir(last.path))
    /\ Shown(windows) # {}

(* C4, as claimed: in a timer tick, every window whose lock poll is made    *)
(* and finds the lock free or the lock file gone has its expectclose raised *)
(* by exactly one and is, after the tick, neither in the registry nor in    *)
(* the inactive set.                                                        *)
C4_FreeLockPollRemoves ==
    [][last'.op = "timeriter" =>
          \A p \in checkact(Scr, now, opts.pullint, opts.inact,
                            opts.lockcheck).polls :
             ~p.held => /\ p.after = p.before + 1
                        /\ ~HasWin(windows', p.src)
                        /\ p.id \notin inactive']_vars

(* C5: the registry holds at most one window per basedir.                   *)
C5_OneWindowPerSource ==
    \A i, j \in Idx(windows) :
       windows[i].basedir = windows[j].basedir => i = j

(* a second create event for a build log that already has a window has been *)
(* handled while two sources have windows                                   *)
C5_Witness ==
    /\ last.op = "IN_CREATE" /\ last.hit
    /\ Len(windows) = 2
    /\ windows[1].basedir # windows[2].basedir

(* C6: every window with a region has at least 3 content rows and a title   *)
(* row right below them, the regions lie above the status bar and do not    *)
(* overlap, and together they take at most height - 1 rows.                 *)
C6_LayoutFit ==
    /\ \A i \in Idx(windows) :
          (windows[i].win = NoWin) <=> (windows[i].nwin = NoWin)
    /\ \A i \in Shown(windows) :
          LET w == windows[i]
          IN  /\ WinRows(w.win) >= 3
              /\ WinRows(w.nwin) = 1
              /\ WinY(w.nwin) = WinY(w.win) + WinRows(w.win)
              /\ WinY(w.win) >= 0
              /\ WinY(w.nwin) < WinY(sbar.win)
              /\ WinCols(w.win) = WinCols(sbar.win)
    /\ \A i, j \in Shown(windows) :
          i # j => RowsOf(windows[i]) \cap RowsOf(windows[j]) = {}
    /\ SumRows(windows, 1) <= WinY(sbar.win)
    /\ WinY(sbar.win) = height - 1

(* a redraw has shown two windows or more and left out one that is not      *)
(* inactive, beside an inactive one                                         *)
C6_Witness ==
    /\ pc = "drawn" /\ crashed = "none"
    /\ Cardinality(Shown(windows)) >= 2
    /\ inactive # {}
    /\ \E i \in Idx(windows) :
          windows[i].win = NoWin /\ windows[i].id \notin inactive

(* C7, as claimed: a redraw under a terminal with fewer than 4 rows above   *)
(* the status bar, with a window that is not inactive, ends without error,  *)
(* with no window holding a region and the status bar drawn.                *)
C7_SmallTerminalHidesAll ==
    (/\ pc = "drawn"
     /\ height - 1 < 4
     /\ \E i \in Idx(windows) : windows[i].id \notin inactive)
    => /\ crashed = "none"
       /\ \A i \in Idx(windows) :
             windows[i].win = NoWin /\ windows[i].nwin = NoWin
       /\ sbar.win = newwin(1, width, height - 1)

C9_BacklogWithinCapacity ==
    (crashed = "none" /\ backloglen = Capacity) =>
       \A i \in Idx(windows) : Len(windows[i].backlog) <= Capacity

(* C10: with the inactivity timeout 0 the inactive set is empty.            *)
C10_NoInactiveWithoutTimeout ==
    opts.inact = 0 => inactive = {}

(* the timer has run, with the timeout 0, over a window that a lock poll    *)
(* has found idle for the lock-check interval                               *)
C10_Witness ==
    /\ opts.inact = 0
    /\ last.op = "timeriter"
    /\ \E i \in Idx(windows) : windows[i].expectclose >= 1

(* the pull of lines 298-301 would deliver new bytes for window w in a tick  *)
(* made now                                                                  *)
delivers(w) ==
    /\ opts.pullint # 0
    /\ now - w.pullts >= opts.pullint
    /\ pulled(w, logs[w.basedir].data) # <<>>

(* C11, as claimed: with an inactivity timeout T > 0, a tick that finds an  *)
(* active window for which no pull has delivered new bytes for at least T   *)
(* seconds, and delivers none in this tick, moves the window to the         *)
(* inactive set (or removes it on the lock poll that follows), whatever     *)
(* redraws other windows have caused in the meantime.                       *)
C11_IdleWindowGoesInactive ==
    [][(last'.op = "timeriter" /\ opts.inact > 0 /\ crashed' = "none") =>
          \A i \in Idx(windows) :
             LET w == windows[i]
             IN  (/\ w.id \notin inactive
                  /\ now - w.fed >= opts.inact
                  /\ ~delivers(w))
                 => (w.id \in inactive' \/ ~HasWin(windows', w.basedir))]_vars

(* the regions the windows hold *)
Regions(ws) == [i \in Idx(ws) |-> <<ws[i].win, ws[i].nwin>>]

(* the step ended without error and with the layout that a redraw gives *)
Recomputed ==
    /\ crashed' = "none"
    /\ Regions(windows') =
          Regions(redraw([windows |-> windows', inactive |-> inactive',
                          backloglen |-> backloglen', sbar |-> sbar',
                          err |-> "none"]).windows)

(* the step handles a modify event for the log of source s, which has a    *)
(* window                                                                   *)
ModifyStep(s) ==
    /\ last'.op = "IN_MODIFY"
    /\ last'.path = (IF s = Fetch THEN fetchlog ELSE buildlog(s))
    /\ HasWin(windows, s)

(* C12, as claimed: a pull, from a modify event or from the timer, that     *)
(* delivers new bytes for an inactive window takes the window out of the    *)
(* inactive set, recomputes the layout and adds the bytes; a pull that      *)
(* delivers no bytes leaves the window's status and activity stamp as they  *)
(* were.                                                                    *)
C12_NewBytesReactivate ==
    [][/\ \A s \in Sources :
             ModifyStep(s) =>
                LET i == findwin(windows, s)
                    w == windows[i]
                    data == pulled(w, logs[s].data)
                IN  IF data # <<>>
                    THEN w.id \in inactive =>
                            /\ w.id \notin inactive'
                            /\ Recomputed
                            /\ windows'[i].backlog =
                                  backlog_add(w.backlog, data, backloglen')
                    ELSE /\ (w.id \in inactive') <=> (w.id \in inactive)
                         /\ windows'[i].activity = w.activity
       /\ last'.op = "timeriter" =>
             \A i \in Idx(windows) :
                (windows[i].id \in inactive /\ delivers(windows[i])) =>
                   /\ windows[i].id \notin inactive'
                   /\ Recomputed
       /\ \A i \in Idx(windows) :
             (crashed = "none" /\ pulled(windows[i], logs[windows[i].basedir].data) = <<>>) =>
                /\ pull_append(Scr, i).inactive = inactive
                /\ pull_append(Scr, i).windows[i].activity = windows[i].activity
      ]_vars

(* the log of build b holds no bytes that its window has not read *)
Drained(b) ==
    HasWin(windows, b) =>
       windows[findwin(windows, b)].pos >= Len(logs[b].data)

(* C13, as claimed: while timer ticks keep occurring, a build whose lock is *)
(* released or gone for good, and whose log delivers no further bytes, does *)
(* not keep its window: whenever it has one, the window is removed later,   *)
(* also when no close-write event for its lock file is ever handled.        *)
C13_ReleasedLockWindowRemoved ==
    \A b \in Builds :
       <>[](lock[b] # "held" /\ Drained(b) /\ TimerOn)
       => []<>(~HasWin(windows, b))

(* the rows window i takes on the screen, title row included *)
RowsTaken(i) == WinRows(windows[i].win) + WinRows(windows[i].nwin)

(* the base share of the windows that are not inactive: the even share of   *)
(* the rows above the status bar, 4 where that is less                      *)
BaseShare ==
    LET even == (height - 1) \div (Len(windows) - Cardinality(inactive))
    IN  IF even < 4 THEN 4 ELSE even

(* C18, as claimed: after a redraw, the rows left over, height - 1 minus    *)
(* the number of shown windows times the base share, go one each to the     *)
(* earliest shown windows: the k-th shown window takes the base share plus  *)
(* one row if k is at most the leftover, and the base share otherwise.      *)
C18_LeftoverToEarliest ==
    (pc = "drawn" /\ crashed = "none" /\ Shown(windows) # {}) =>
       LET leftover == (height - 1) - Cardinality(Shown(windows)) * BaseShare
       IN  \A i \in Shown(windows) :
              LET k == Cardinality({j \in Shown(windows) : j <= i})
              IN  RowsTaken(i) = BaseShare + (IF k <= leftover THEN 1 ELSE 0)

(* the cursor of the window w lies inside its region *)
InRegion(w) ==
    /\ w.cur[1] >= 0 /\ w.cur[1] <= WinRows(w.win) - 1
    /\ w.cur[2] >= 0 /\ w.cur[2] <= WinCols(w.win) - 1

CursorLetters == {"A", "B", "C", "D", "E", "F", "G", "H"}

(* C14: whatever cursor command A..H with whatever argument is interpreted  *)
(* from whatever position inside the region, the cursor is inside the       *)
(* region afterwards: 0 <= row <= rows-1 and 0 <= col <= cols-1.            *)
C14_CursorStaysInRegion ==
    [][(stream' # <<>> /\ stream'[1] # <<BEL>>
        /\ csifunc(stream'[1]) \in CursorLetters)
       => InRegion(windows'[1])]_vars

(* C14: a move right by 9 in a region of 2 columns has ended in the last    *)
(* column                                                                   *)
C14_Witness ==
    /\ pc = "csi"
    /\ stream = <<<<ESC, "[", "9", "C">>>>
    /\ last.hit
    /\ WinCols(windows[1].win) = 2
    /\ windows[1].cur[2] = 1

(* the last parameter of the SGR sequence seq is 0 or empty *)
EndsWithReset(seq) ==
    /\ seq # <<BEL>>
    /\ csifunc(seq) = "m"
    /\ sgrparam(csiargs(seq)[Len(csiargs(seq))]) = 0

(* C17: an SGR sequence that ends with the parameter 0, or with an empty    *)
(* parameter, leaves mode without bits and both colours at the default -1,  *)
(* whatever they were; after another such sequence nothing has changed.     *)
C17_SgrResetGivesDefault ==
    [][(stream' # <<>> /\ EndsWithReset(stream'[1]))
       => /\ windows'[1].mode = {}
          /\ windows'[1].fgcol = 0 - 1
          /\ windows'[1].bgcol = 0 - 1
          /\ windows'[1].attr = A_NORMAL
          /\ (stream # <<>> /\ EndsWithReset(stream[1]))
                => windows' = windows]_vars

(* C17: ESC[0m has changed the state of the interpreter to the default *)
C17_Witness ==
    /\ pc = "csi"
    /\ stream = <<<<ESC, "[", "0", "m">>>>
    /\ last.hit
    /\ windows[1].mode = {}
    /\ windows[1].fgcol = 0 - 1
    /\ windows[1].bgcol = 0 - 1

(* the direction table: the first and second argument, 1 when left out *)
TableArg(seq, k) ==
    IF Len(csiargs(seq)) >= k /\ csiargs(seq)[k] # <<>>
    THEN int10(csiargs(seq)[k]) ELSE 1

TableRow(f, seq, y) ==
    IF f \in {"A", "F"} THEN y - TableArg(seq, 1)
    ELSE IF f \in {"B", "E"} THEN y + TableArg(seq, 1)
    ELSE IF f = "H" THEN TableArg(seq, 1) - 1
    ELSE y

TableCol(f, seq, x) ==
    IF f = "C" THEN x + TableArg(seq, 1)
    ELSE IF f = "D" THEN x - TableArg(seq, 1)
    ELSE IF f \in {"E", "F"} THEN 0
    ELSE IF f = "G" THEN TableArg(seq, 1) - 1
    ELSE IF f = "H" THEN TableArg(seq, 2) - 1
    ELSE x

(* C19: every cursor command A..H is handled, and moves the cursor to the   *)
(* position of the direction table (E and F to the first column, H to row   *)
(* r-1 and column c-1), brought into the region.                            *)
C19_CursorFollowsTable ==
    [][(stream' # <<>> /\ stream'[1] # <<BEL>>
        /\ csifunc(stream'[1]) \in CursorLetters)
       => /\ crashed' = "none"
          /\ windows'[1].cur =
               <<clamp(TableRow(csifunc(stream'[1]), stream'[1],
                                windows[1].cur[1]), WinRows(windows[1].win)),
                 clamp(TableCol(csifunc(stream'[1]), stream'[1],
                                windows[1].cur[2]), WinCols(windows[1].win))>>]_vars

(* the newlines among the characters drawn, and in a text *)
RECURSIVE NLsDrawn(_)
NLsDrawn(out) ==
    IF out = <<>> THEN 0
    ELSE (IF out[Len(out)].ch = NL THEN 1 ELSE 0)
         + NLsDrawn(SubSeq(out, 1, Len(out) - 1))

RECURSIVE NLsIn(_)
NLsIn(text) ==
    IF text = <<>> THEN 0
    ELSE (IF text[Len(text)] = NL THEN 1 ELSE 0)
         + NLsIn(SubSeq(text, 1, Len(text) - 1))

Owed(w) == IF w.newline THEN 1 ELSE 0

(* characters s drawn with the attributes attr *)
Run(s, attr) == [k \in 1..Len(s) |-> [ch |-> s[k], attr |-> attr]]

(* C15: the newline that ends a chunk is not drawn with that chunk: the     *)
(* window only remembers it; the next chunk for the window draws it before  *)
(* anything else, and a redraw does not draw it.  Scenario B on a new       *)
(* window draws abc by default, red with a red foreground, def by default,  *)
(* and leaves the newline owed.                                             *)
C15_TrailingNewlineDeferred ==
    [][/\ (last'.op = "append" /\ Len(stream') = Len(stream) + 1)
          => /\ windows'[1].newline = endswith_nl(stream'[Len(stream')])
             /\ windows[1].newline
                   => /\ Len(windows'[1].out) > Len(windows[1].out)
                      /\ windows'[1].out[Len(windows[1].out) + 1].ch = NL
             /\ crashed' = "none"
                   => NLsDrawn(windows'[1].out) + Owed(windows'[1])
                      = NLsDrawn(windows[1].out) + Owed(windows[1])
                        + NLsIn(stream'[Len(stream')])
             /\ (stream = <<>> /\ pc = "live" /\ stream' = <<ScenarioB>>)
                   => /\ windows'[1].out =
                           Run(<<"a", "b", "c">>, A_NORMAL)
                           \o Run(<<"r", "e", "d">>,
                                  [mode |-> {}, pair |-> getcolor(1, 0 - 1)])
                           \o Run(<<"d", "e", "f">>, A_NORMAL)
                      /\ windows'[1].newline
       /\ (last'.op = "redraw" /\ pc' = "replayed" /\ crashed' = "none")
          => NLsDrawn(windows'[1].out) + Owed(windows'[1])
             = NLsIn(windows[1].backlog)]_vars

(* C15: the newline of Scenario B has been drawn by the chunk x, before x *)
C15_Witness ==
    /\ pc = "live"
    /\ stream = <<ScenarioB, <<"x">>>>
    /\ Len(windows[1].out) = 11
    /\ windows[1].out[10].ch = NL
    /\ windows[1].out[11].ch = "x"
    /\ ~windows[1].newline

(* C16: when append raises for an unsupported sequence, the chunk has left  *)
(* nothing in the window: no character drawn, no attribute changed, the     *)
(* cursor where it was.                                                     *)
C16_RaiseAppliesNothing ==
    [][(last'.op = "append" /\ Len(stream') = Len(stream) + 1
        /\ crashed' # "none")
       => /\ windows'[1].out = windows[1].out
          /\ windows'[1].attr = windows[1].attr
          /\ windows'[1].cur = windows[1].cur]_vars

(* the characters of what was drawn *)
ChOf(out) == [k \in 1..Len(out) |-> out[k].ch]

RECURSIVE Flat(_)
Flat(chunks) ==
    IF chunks = <<>> THEN <<>>
    ELSE Flat(SubSeq(chunks, 1, Len(chunks) - 1)) \o chunks[Len(chunks)]

(* what a redraw would draw now *)
Replayed ==
    show_drawn(windows[1], jobshare(height - 1, 1).jobrows, 0, opts.debug)

(* C20: while the chunks delivered fit in the backlog, the characters that  *)
(* the appends have drawn carry the attributes and the colour pair that a   *)
(* replay of the backlog gives them.                                        *)
C20_ReplayEqualsLive ==
    (/\ pc = "live"
     /\ crashed = "none"
     /\ Len(Flat(stream)) <= backloglen
     /\ Replayed.err = "none"
     /\ ChOf(Replayed.out) = ChOf(windows[1].out))
    => Replayed.out = windows[1].out

====
